---- MODULE Spec2Model ----
(***************************************************************************)
(* Model of crates/ide/src/view_crate_graph.rs: the workspace filter, the  *)
(* DotCrateGraph walker/labeller and the `dot` child process protocol of   *)
(* render_svg.                                                             *)
(***************************************************************************)
EXTENDS Integers, Sequences, FiniteSets, TLC

VARIABLES
    db,                \* RootDatabase: crate_graph, file_source_root, source_root
    pc,                \* position of the request inside view_crate_graph
    crates_to_render,  \* DotCrateGraph.crates_to_render (FxHashSet<CrateId>)
    iter_order,        \* order in which crates_to_render.iter() yields its elements
    nodes,             \* what GraphWalk::nodes returned
    edges,             \* what GraphWalk::edges returned
    dot,               \* the serialized buffer `dot`, one element per statement
    prev_dot,          \* the buffer of the previous request on the same database
    child,             \* state of the spawned `dot` process
    out_total,         \* length of the complete output the child has for this input
    stdin_pipe,        \* bytes buffered in the pipe to the child's stdin
    stdout_pipe,       \* bytes buffered in the pipe from the child's stdout
    written,           \* bytes of `dot` write_all has written so far
    consumed,          \* bytes the child has read from its stdin
    produced,          \* bytes the child has written to its stdout
    svg,               \* bytes read_to_string has appended to `svg`
    parent_stdin,      \* the parent's handle child.stdin
    parent_stdout,     \* the parent's handle child.stdout
    child_handle,      \* the parent's process handle (Child)
    ops,               \* operations on the child the request has attempted
    result             \* what view_crate_graph returned

vars == <<db, pc, crates_to_render, iter_order, nodes, edges, dot, prev_dot,
          child, out_total, stdin_pipe, stdout_pipe, written, consumed, produced,
          svg, parent_stdin, parent_stdout, child_handle, ops, result>>

graphVars == <<crates_to_render, iter_order, nodes, edges, dot>>
childVars == <<child, out_total, stdin_pipe, stdout_pipe, written, consumed,
               produced, svg, parent_stdin, parent_stdout, child_handle, ops>>

----------------------------------------------------------------------------
(* Bounds *)

NumCrates == 3       \* crates of the graphs of SpecGraph: CrateId 0..NumCrates-1
MaxDeps == 2         \* dependency records in a graph
NumIdCrates == 13    \* crates of the graphs of SpecId: CrateId 0..NumIdCrates-1
MaxSvgLen == 3       \* longest complete output of the child
PipeCap == 2         \* capacity of a pipe buffer

----------------------------------------------------------------------------
(* Strings are sequences of one-character strings. *)

Letters == {"a", "b", "e", "g", "i", "m", "n", "s"}
Digits == <<"0", "1", "2", "3", "4", "5", "6", "7", "8", "9">>
DigitSet == {Digits[i] : i \in 1..10}

Range(s) == {s[i] : i \in 1..Len(s)}

None == [some |-> FALSE, name |-> <<>>]
Some(s) == [some |-> TRUE, name |-> s]

\* Display names the graphs of SpecId draw from.
Names ==
    { <<"a">>, <<"a", "_", "1">>, <<"a", "1">>, <<"a", "_">>,
      <<"a", "-", "b">>, <<"a", " ", "b">>, <<"a", "\"">>, <<"1", "a">> }

\* Display of an integer ({} of a u32): decimal, no sign, no leading zeros.
RECURSIVE Decimal(_)
Decimal(n) ==
    IF n < 10 THEN <<Digits[n + 1]>>
    ELSE Decimal(n \div 10) \o <<Digits[(n % 10) + 1]>>

MissingName == <<"_", "m", "i", "s", "s", "i", "n", "g", "_", "n", "a", "m", "e", "_">>

\* format!("{}_{}", name, n.0) of node_id
NodeIdStringNoSep(g, n) ==
    LET dn == g[n].display_name
        name == IF dn.some THEN dn.name ELSE MissingName
    IN name \o Decimal(n)

NodeIdString(g, n) ==
    LET dn == g[n].display_name
        name == IF dn.some THEN dn.name ELSE MissingName
    IN name \o <<"_">> \o Decimal(n)

\* dot::Id::new: Ok for [a-zA-Z_][a-zA-Z0-9_]*, Err(()) otherwise
IdNew(s) ==
    LET IsAlpha(c) == c \in Letters
        IsDigit(c) == c \in DigitSet
        valid == /\ Len(s) > 0
                 /\ IsAlpha(s[1]) \/ s[1] = "_"
                 /\ \A i \in 1..Len(s) : IsAlpha(s[i]) \/ IsDigit(s[i]) \/ s[i] = "_"
    IN [ok |-> valid, id |-> s]

\* node_id: Id::new(format!(..)).unwrap(); ok = FALSE is the panic of unwrap
NodeId(g, n) == IdNew(NodeIdString(g, n))

GraphId == <<"rust_analyzer_crate_graph">>

----------------------------------------------------------------------------
(* WorkspaceFilter and GraphWalk *)

\* db.source_root(db.file_source_root(crate_graph[krate].root_file_id)).is_library
IsLibrary(d, krate) ==
    d.source_root[d.file_source_root[d.crate_graph[krate].root_file_id]].is_library

CratesToRenderAll(d) == DOMAIN d.crate_graph

\* crate_graph.iter().filter(..).collect()
CratesToRender(d) == {krate \in DOMAIN d.crate_graph : ~IsLibrary(d, krate)}

\* The orders in which iterating a hash set of these elements can yield them.
IterOrders(S) ==
    {s \in [1..Cardinality(S) -> S] : \A i, j \in 1..Cardinality(S) : s[i] = s[j] => i = j}

Source(edge) == edge[1]
Target(edge) == edge[2].crate_id

EdgesFromUnfiltered(g, set, krate) ==
    LET deps == g[krate].dependencies
    IN [i \in 1..Len(deps) |-> <<krate, deps[i]>>]

EdgesFromDedup(g, set, krate) ==
    LET Keep(dep) == dep.crate_id \in set
        kept == SelectSeq(g[krate].dependencies, Keep)
        firsts == {i \in 1..Len(kept) : \A j \in 1..(i - 1) : kept[j] # kept[i]}
        First(i) == CHOOSE k \in firsts : Cardinality({j \in firsts : j < k}) = i - 1
    IN [i \in 1..Cardinality(firsts) |-> <<krate, kept[First(i)]>>]

\* the closure of flat_map in edges: the crate's dependencies, filtered, paired
EdgesFrom(g, set, krate) ==
    LET Keep(dep) == dep.crate_id \in set
        kept == SelectSeq(g[krate].dependencies, Keep)
    IN [i \in 1..Len(kept) |-> <<krate, kept[i]>>]

RECURSIVE FlatMapEdges(_, _, _)
FlatMapEdges(g, set, order) ==
    IF order = <<>> THEN <<>>
    ELSE EdgesFrom(g, set, Head(order)) \o FlatMapEdges(g, set, Tail(order))

\* dot::render: the header, one statement per node, one per edge, the footer
DotRender(g, ns, es) ==
    <<<<"digraph", GraphId>>>>
    \o [i \in 1..Len(ns) |-> <<"node", NodeId(g, ns[i]).id>>]
    \o [i \in 1..Len(es) |->
            <<"edge", NodeId(g, Source(es[i])).id, NodeId(g, Target(es[i])).id>>]
    \o <<<<"}">>>>

NoDot == <<>>
NoResult == [kind |-> "none", svg |-> 0, msg |-> <<>>]

----------------------------------------------------------------------------
(* Databases *)

CrateData(name, file, deps) ==
    [display_name |-> name, root_file_id |-> file, dependencies |-> deps]

Dep(t) == [crate_id |-> t]

\* Two source roots: SourceRootId 1 is a workspace root, 2 a library root.
SourceRoots == <<[is_library |-> FALSE], [is_library |-> TRUE]>>

RECURSIVE SeqsUpTo(_, _)
SeqsUpTo(S, n) ==
    IF n = 0 THEN {<<>>}
    ELSE LET shorter == SeqsUpTo(S, n - 1)
         IN shorter \cup {Append(s, x) : s \in {t \in shorter : Len(t) = n - 1}, x \in S}

\* The targets of the records of recs that leave crate k, in order.
DepsOf(recs, k) ==
    LET From(r) == r[1] = k
        mine == SelectSeq(recs, From)
    IN [i \in 1..Len(mine) |-> Dep(mine[i][2])]

PipelineInit ==
    /\ pc = "start"
    /\ crates_to_render = {}
    /\ iter_order = <<>>
    /\ nodes = <<>>
    /\ edges = <<>>
    /\ dot = NoDot
    /\ prev_dot = NoDot
    /\ child = "none"
    /\ out_total = 0
    /\ stdin_pipe = 0
    /\ stdout_pipe = 0
    /\ written = 0
    /\ consumed = 0
    /\ produced = 0
    /\ svg = 0
    /\ parent_stdin = "none"
    /\ parent_stdout = "none"
    /\ child_handle = "none"
    /\ ops = {}
    /\ result = NoResult

\* Every graph of NumCrates crates with at most MaxDeps dependency records and
\* every assignment of the crates' root files to the two source roots. Crate 0
\* has no display name, the others share one.
InitGraph ==
    /\ \E recs \in SeqsUpTo((0..(NumCrates - 1)) \X (0..(NumCrates - 1)), MaxDeps) :
       \E roots \in [0..(NumCrates - 1) -> {1, 2}] :
          db = [crate_graph |->
                   [k \in 0..(NumCrates - 1) |->
                       CrateData(IF k = 0 THEN None ELSE Some(<<"a">>), k, DepsOf(recs, k))],
                file_source_root |-> roots,
                source_root |-> SourceRoots]
    /\ PipelineInit

\* Graphs of NumIdCrates crates without dependencies in which exactly two crates
\* are workspace crates, with every choice of their display names.
InitId ==
    /\ \E a, b \in 0..(NumIdCrates - 1) :
       \E na, nb \in Names \cup {<<>>} :
       \E sa, sb \in BOOLEAN :
          /\ a < b
          /\ ~sa => na = <<>>
          /\ ~sb => nb = <<>>
          /\ db = [crate_graph |->
                      [k \in 0..(NumIdCrates - 1) |->
                          CrateData(IF k = a /\ sa THEN Some(na)
                                    ELSE IF k = b /\ sb THEN Some(nb)
                                    ELSE None, k, <<>>)],
                   file_source_root |->
                      [k \in 0..(NumIdCrates - 1) |-> IF k \in {a, b} THEN 1 ELSE 2],
                   source_root |-> SourceRoots]
    /\ PipelineInit

----------------------------------------------------------------------------
(* view_crate_graph, lines 28-40: filter, build the DotCrateGraph, dot::render *)

Serialize ==
    /\ pc = "start"
    /\ LET g == db.crate_graph
           set == CratesToRender(db)
       IN \E order \in IterOrders(set) :
            LET ns == order
                es == FlatMapEdges(g, set, order)
            IN /\ crates_to_render' = set
               /\ iter_order' = order
               /\ nodes' = ns
               /\ edges' = es
               /\ IF \A i \in 1..Len(ns) : NodeId(g, ns[i]).ok
                  THEN /\ dot' = DotRender(g, ns, es)
                       /\ pc' = "serialized"
                  ELSE /\ dot' = NoDot
                       /\ pc' = "panicked"
    /\ UNCHANGED <<db, prev_dot, result>>
    /\ UNCHANGED childVars

\* The next request on the same, unchanged database.
Rerun ==
    /\ pc = "serialized"
    /\ prev_dot' = dot
    /\ pc' = "start"
    /\ crates_to_render' = {}
    /\ iter_order' = <<>>
    /\ nodes' = <<>>
    /\ edges' = <<>>
    /\ dot' = NoDot
    /\ UNCHANGED <<db, result>>
    /\ UNCHANGED childVars

NextGraph == Serialize \/ Rerun
SpecGraph == InitGraph /\ [][NextGraph]_vars

NextId == Serialize
SpecId == InitId /\ [][NextId]_vars

\* A workspace of two crates, crate 0 depending on crate 1 through up to MaxDeps
\* dependency records.
InitRender ==
    /\ \E d \in 0..MaxDeps :
          db = [crate_graph |->
                   [k \in 0..1 |->
                       CrateData(IF k = 0 THEN None ELSE Some(<<"a">>), k,
                                 IF k = 0 THEN [i \in 1..d |-> Dep(1)] ELSE <<>>)],
                file_source_root |-> [k \in 0..1 |-> 1],
                source_root |-> SourceRoots]
    /\ PipelineInit

----------------------------------------------------------------------------
(* render_svg *)

\* the prefix "failed to spawn `dot`: " (a string of the module cannot hold a backquote)
ToolNotFound == "failed to spawn dot: "

\* errors Command::spawn can return
SpawnErrors == {"No such file or directory", "Permission denied"}

Ok(n) == [kind |-> "Ok", svg |-> n, msg |-> <<>>]
Err(m) == [kind |-> "Err", svg |-> 0, msg |-> m]

SpawnErrRaw(err) == <<err>>

\* map_err(|err| format!("failed to spawn `dot`: {}", err))
SpawnErr(err) == <<ToolNotFound, err>>

\* `?` on an io::Error, then e.to_string() in view_crate_graph
IoErr(err) == <<err>>

\* spawn() fails: `?` returns the mapped error
SpawnFail ==
    /\ pc = "serialized"
    /\ \E err \in SpawnErrors : result' = Err(SpawnErr(err))
    /\ ops' = ops \cup {"spawn"}
    /\ pc' = "returned"
    /\ UNCHANGED <<db, prev_dot, child, out_total, stdin_pipe, stdout_pipe, written,
                   consumed, produced, svg, parent_stdin, parent_stdout, child_handle>>
    /\ UNCHANGED graphVars

\* spawn() succeeds: a child with both pipes
SpawnOk ==
    /\ pc = "serialized"
    /\ child' = "reading"
    /\ out_total' \in 0..MaxSvgLen
    /\ parent_stdin' = "open"
    /\ parent_stdout' = "open"
    /\ child_handle' = "owned"
    /\ ops' = ops \cup {"spawn"}
    /\ pc' = "write"
    /\ UNCHANGED <<db, prev_dot, stdin_pipe, stdout_pipe, written, consumed, produced,
                   svg, result>>
    /\ UNCHANGED graphVars

ChildRunning == child \in {"reading", "writing"}

\* write_all: one more byte goes into the pipe; after the last one the statement
\* ends and the ChildStdin temporary is dropped
Write ==
    /\ pc = "write"
    /\ ChildRunning
    /\ stdin_pipe < PipeCap
    /\ written' = written + 1
    /\ stdin_pipe' = stdin_pipe + 1
    /\ ops' = ops \cup {"write"}
    /\ IF written + 1 = Len(dot)
       THEN /\ parent_stdin' = "closed"
            /\ pc' = "read"
       ELSE UNCHANGED <<parent_stdin, pc>>
    /\ UNCHANGED <<db, prev_dot, child, out_total, stdout_pipe, consumed, produced, svg,
                   parent_stdout, child_handle, result>>
    /\ UNCHANGED graphVars

\* write_all fails (the child has gone): `?` returns, `child` is dropped
WriteErr ==
    /\ pc = "write"
    /\ ~ChildRunning
    /\ ops' = ops \cup {"write"}
    /\ result' = Err(IoErr("Broken pipe"))
    /\ parent_stdin' = "closed"
    /\ parent_stdout' = "closed"
    /\ child_handle' = "dropped"
    /\ pc' = "returned"
    /\ UNCHANGED <<db, prev_dot, child, out_total, stdin_pipe, stdout_pipe, written,
                   consumed, produced, svg>>
    /\ UNCHANGED graphVars

\* read_to_string: one more byte comes out of the pipe
Read ==
    /\ pc = "read"
    /\ stdout_pipe > 0
    /\ svg' = svg + 1
    /\ stdout_pipe' = stdout_pipe - 1
    /\ ops' = ops \cup {"read"}
    /\ UNCHANGED <<db, prev_dot, pc, child, out_total, stdin_pipe, written, consumed,
                   produced, parent_stdin, parent_stdout, child_handle, result>>
    /\ UNCHANGED graphVars

\* read_to_string sees end of file: Ok(svg), or the error of bytes that are not
\* UTF-8; the ChildStdout temporary and then `child` are dropped
ReadEof ==
    /\ pc = "read"
    /\ stdout_pipe = 0
    /\ ~ChildRunning
    /\ \E utf8 \in (IF svg = 0 THEN {TRUE} ELSE BOOLEAN) :
          result' = IF utf8 THEN Ok(svg)
                    ELSE Err(IoErr("stream did not contain valid UTF-8"))
    /\ ops' = ops \cup {"read"}
    /\ parent_stdout' = "closed"
    /\ child_handle' = "dropped"
    /\ pc' = "returned"
    /\ UNCHANGED <<db, prev_dot, child, out_total, stdin_pipe, stdout_pipe, written,
                   consumed, produced, svg, parent_stdin>>
    /\ UNCHANGED graphVars

(* The child: the source fixes nothing about it but its pipes. *)

ChildRead ==
    /\ child = "reading"
    /\ stdin_pipe > 0
    /\ stdin_pipe' = stdin_pipe - 1
    /\ consumed' = consumed + 1
    /\ UNCHANGED <<db, prev_dot, pc, child, out_total, stdout_pipe, written, produced, svg,
                   parent_stdin, parent_stdout, child_handle, ops, result>>
    /\ UNCHANGED graphVars

\* the child calls write on its stdout; the call blocks while the pipe is full
ChildBeginWrite ==
    /\ child = "reading"
    /\ produced < out_total
    /\ child' = "writing"
    /\ UNCHANGED <<db, prev_dot, pc, out_total, stdin_pipe, stdout_pipe, written, consumed,
                   produced, svg, parent_stdin, parent_stdout, child_handle, ops, result>>
    /\ UNCHANGED graphVars

ChildWrite ==
    /\ child = "writing"
    /\ parent_stdout = "open"
    /\ stdout_pipe < PipeCap
    /\ stdout_pipe' = stdout_pipe + 1
    /\ produced' = produced + 1
    /\ child' = "reading"
    /\ UNCHANGED <<db, prev_dot, pc, out_total, stdin_pipe, written, consumed, svg,
                   parent_stdin, parent_stdout, child_handle, ops, result>>
    /\ UNCHANGED graphVars

\* the child has read its whole input to end of file and written its whole output
ChildExit ==
    /\ child = "reading"
    /\ parent_stdin = "closed"
    /\ stdin_pipe = 0
    /\ produced = out_total
    /\ child' = "exited_ok"
    /\ UNCHANGED <<db, prev_dot, pc, out_total, stdin_pipe, stdout_pipe, written, consumed,
                   produced, svg, parent_stdin, parent_stdout, child_handle, ops, result>>
    /\ UNCHANGED graphVars

\* the child fails or is killed (SIGPIPE included), at any point; what it had
\* not read is lost
ChildFail ==
    /\ ChildRunning
    /\ child' = "exited_fail"
    /\ stdin_pipe' = 0
    /\ UNCHANGED <<db, prev_dot, pc, out_total, stdout_pipe, written, consumed, produced,
                   svg, parent_stdin, parent_stdout, child_handle, ops, result>>
    /\ UNCHANGED graphVars

NextRender ==
    \/ Serialize
    \/ SpawnFail
    \/ SpawnOk
    \/ Write
    \/ WriteErr
    \/ Read
    \/ ReadEof
    \/ ChildRead
    \/ ChildBeginWrite
    \/ ChildWrite
    \/ ChildExit
    \/ ChildFail

SpecRender == InitRender /\ [][NextRender]_vars

----------------------------------------------------------------------------
(* Claims *)

Crates == DOMAIN db.crate_graph
Walked == pc \in {"serialized", "panicked"}

\* C1: the nodes handed to the serializer are exactly the crates whose root
\* file's source root is not a library: every such crate, and no library crate.
C1_NodesAreWorkspaceCrates ==
    Walked => \A k \in Crates : (k \in Range(nodes)) <=> (IsLibrary(db, k) = FALSE)

C1_Witness ==
    /\ pc = "serialized"
    /\ \E k \in Crates : IsLibrary(db, k)
    /\ \E k \in Crates : ~IsLibrary(db, k) /\ k \in Range(nodes)

\* C2: every emitted edge has its source and its target in crates_to_render and
\* among the emitted nodes; neither end is a library crate.
C2_NoDanglingEdges ==
    Walked =>
        \A i \in 1..Len(edges) :
            /\ Source(edges[i]) \in crates_to_render \cap Range(nodes)
            /\ Target(edges[i]) \in crates_to_render \cap Range(nodes)
            /\ ~IsLibrary(db, Source(edges[i]))
            /\ ~IsLibrary(db, Target(edges[i]))

C2_Witness ==
    /\ pc = "serialized"
    /\ edges # <<>>
    /\ \E k \in crates_to_render :
       \E i \in 1..Len(db.crate_graph[k].dependencies) :
          IsLibrary(db, db.crate_graph[k].dependencies[i].crate_id)

\* C3: no state in which the parent is blocked writing the rest of its input
\* while the child is blocked writing output the parent has not begun to read.
C3_NoPipeDeadlock ==
    ~(/\ pc = "write"
      /\ written < Len(dot)
      /\ stdin_pipe = PipeCap
      /\ child = "writing"
      /\ stdout_pipe = PipeCap)

\* C4: Ok(svg) is returned only when the renderer consumed the whole input,
\* produced its complete output and ended successfully.
C4_NoPartialOutput ==
    (pc = "returned" /\ result.kind = "Ok") =>
        /\ child = "exited_ok"
        /\ consumed = Len(dot)
        /\ result.svg = out_total

\* C5: node identifier construction fails for no display name, so the request
\* never panics in the serializer.
C5_NodeIdNeverFails == pc # "panicked"

IsToolNotFound(r) == r.kind = "Err" /\ r.msg # <<>> /\ Head(r.msg) = ToolNotFound

\* C6: when no child could be spawned the request returns the tool-not-found
\* error and has attempted no write and no read; an error returned after a
\* successful spawn comes from a write or a read and is not tool-not-found.
C6_SpawnFailureIsToolNotFound ==
    pc = "returned" =>
        /\ child = "none" =>
              /\ IsToolNotFound(result)
              /\ ops = {"spawn"}
              /\ written = 0 /\ svg = 0
              /\ parent_stdin = "none" /\ parent_stdout = "none"
        /\ (child # "none" /\ result.kind = "Err") =>
              /\ ~IsToolNotFound(result)
              /\ ops \cap {"write", "read"} # {}

C6_Witness ==
    /\ pc = "returned"
    /\ child = "none"
    /\ result.kind = "Err"

\* C7: when render_svg returns after a successful spawn, both pipe handles are
\* closed and the child has been waited on.
C7_ChildReleased ==
    (pc = "returned" /\ child # "none") =>
        /\ parent_stdin = "closed"
        /\ parent_stdout = "closed"
        /\ child_handle = "reaped"

\* the identifiers of the node statements of the buffer, in the order of nodes
NodeStatementIds == [i \in 1..Len(nodes) |-> dot[i + 1][2]]

\* C8: within one serialization distinct crates have distinct node identifiers.
C8_NodeIdsDistinct ==
    pc = "serialized" =>
        \A i, j \in 1..Len(nodes) :
            nodes[i] # nodes[j] => NodeStatementIds[i] # NodeStatementIds[j]

C8_Witness ==
    /\ pc = "serialized"
    /\ crates_to_render = {2, 12}
    /\ db.crate_graph[2].display_name = Some(<<"a", "_", "1">>)
    /\ db.crate_graph[12].display_name = Some(<<"a">>)
    /\ Len(nodes) = 2

EdgesWithSource(k) ==
    LET Mine(e) == Source(e) = k
        mine == SelectSeq(edges, Mine)
    IN [i \in 1..Len(mine) |-> mine[i][2]]

WorkspaceDeps(k) ==
    LET InWorkspace(dep) == ~IsLibrary(db, dep.crate_id)
    IN SelectSeq(db.crate_graph[k].dependencies, InWorkspace)

\* A depends on B and on C, in this order; A and B are workspace crates, C is a
\* library crate; B has no dependencies.
ExampleGraph(a, b, c) ==
    /\ a # b /\ a # c /\ b # c
    /\ Crates = {a, b, c}
    /\ ~IsLibrary(db, a) /\ ~IsLibrary(db, b) /\ IsLibrary(db, c)
    /\ db.crate_graph[a].dependencies = <<Dep(b), Dep(c)>>
    /\ db.crate_graph[b].dependencies = <<>>

\* C10: the edges emitted with a workspace crate as source are its stored
\* dependencies with a workspace target, in stored order, one edge per record;
\* no edge has another source; the example graph gives two nodes and one edge.
C10_EdgesAreFilteredDependencies ==
    Walked =>
        /\ \A k \in Crates :
              EdgesWithSource(k) = IF IsLibrary(db, k) THEN <<>> ELSE WorkspaceDeps(k)
        /\ \A i \in 1..Len(edges) : Source(edges[i]) \in Crates
        /\ \A a, b, c \in Crates :
              ExampleGraph(a, b, c) =>
                  /\ Len(nodes) = 2 /\ Range(nodes) = {a, b}
                  /\ edges = <<<<a, Dep(b)>>>>

C10_Witness ==
    /\ pc = "serialized"
    /\ \E a, b, c \in Crates :
          /\ ExampleGraph(a, b, c)
          /\ Len(nodes) = 2
          /\ Len(edges) = 1

====
